---- MODULE Spec2Model ----
(***************************************************************************)
(* Model of src/src/pulse/mainloop.c: the reference-counted PulseAudio     *)
(* threaded main loop (vlc_pa_mainloop_init / vlc_pa_mainloop_deinit) and  *)
(* the connection helpers built on it (vlc_pa_connect, vlc_pa_disconnect,  *)
(* context_wait, context_state_cb).                                        *)
(*                                                                         *)
(* Caller threads run vlc_pa_connect and vlc_pa_disconnect one statement   *)
(* group at a time; pc[t] is the position of thread t.  Every threaded     *)
(* main loop object has its own dispatch thread, which takes the loop's    *)
(* lock, advances the state of a context bound to the loop, runs           *)
(* context_state_cb and releases the lock.                                 *)
(*                                                                         *)
(* A failed assert() aborts the process (the file includes <assert.h> and  *)
(* does not define NDEBUG).  A pa_threaded_mainloop_* call on a freed loop *)
(* is undefined: it may kill the process, work on the stale memory, or     *)
(* work on a newer loop that malloc placed at the same address.            *)
(***************************************************************************)
EXTENDS Integers, FiniteSets, TLC

\* ---------------------------------------------------------------- bounds
NThreads == 2          \* caller threads
MaxLoops == 2          \* addresses malloc can hand out for a main loop
UINT_MAX == 3          \* largest value of `unsigned` in the model

MaxConns == UINT_MAX + 1

Threads == 1..NThreads
Loops   == 1..MaxLoops
NULL    == 0
NoOwner == 0
EL      == NThreads + 1     \* lock owner id of a loop's dispatch thread

\* pa_context_state_t
CtxStates == {"UNCONNECTED", "CONNECTING", "AUTHORIZING", "SETTING_NAME",
              "READY", "FAILED", "TERMINATED"}
NoCtx     == "none"

VARIABLES
    refs,             \* static unsigned refs
    vlc_pa_mainloop,  \* static pa_threaded_mainloop *vlc_pa_mainloop
    lock,             \* static vlc_mutex_t lock: owner or NoOwner
    loopStatus,       \* per loop address: "free", "new", "started", "stopped"
    loopLock,         \* per loop address: owner of the loop's monitor lock
    pc,               \* per caller thread: position in the code
    op,               \* per caller thread: "none", "connect", "disconnect"
    mainloop,         \* per caller thread: local variable `mainloop`
    ctxState,         \* per caller thread: state of the context being connected
    result,           \* per caller thread: exit path of the current/last call
    delta,            \* per caller thread: net change the call made to refs
    conns,            \* contexts returned by vlc_pa_connect, not yet disconnected
    abort             \* "none", or why the process terminated abnormally

vars == <<refs, vlc_pa_mainloop, lock, loopStatus, loopLock, pc, op, mainloop,
          ctxState, result, delta, conns, abort>>

\* ------------------------------------------------- conditions of the code

\* line 67: the test that sends vlc_pa_mainloop_init to `out` with NULL
RefsExhausted(r) == r < UINT_MAX

\* line 76: refs++ on an unsigned
IncRefs(r) == (r + 1) % (UINT_MAX + 1)

\* line 91: --refs on an unsigned
DecRefs(r) == (r + UINT_MAX) % (UINT_MAX + 1)

\* the test of line 91 made one too high: the loop is stopped while one
\* reference remains
StillReferencedOffByOne(r) == r > 1

\* the test of line 91 made always true: no release ever stops the loop
StillReferencedAlways(r) == r >= 0

\* line 91: if (--refs > 0) mainloop = NULL, applied to the decremented value
StillReferenced(r) == r > 0

\* the switch of lines 139-147 with only the PA_CONTEXT_READY case
ShouldSignalReadyOnly(s) == s = "READY"

\* lines 139-147: the states for which context_state_cb signals
ShouldSignal(s) == s \in {"READY", "FAILED", "TERMINATED"}

\* line 154: loop condition of context_wait is state != PA_CONTEXT_READY
WaitReady(s) == s = "READY"

\* the test of line 156 widened: context_wait gives up on any state but READY
\* instead of waiting
WaitFailedUnlessReady(s) == s # "READY"

\* line 156: context_wait gives up
WaitFailed(s) == s \in {"FAILED", "TERMINATED"}

Running == abort = "none"

\* A use of a main loop pointer that is NULL or points to freed memory
Dangling(m) == m = NULL \/ loopStatus[m] = "free"

Connecting(t) == op[t] = "connect"

\* pa_threaded_mainloop_signal (m, 0): wakes every thread blocked in
\* pa_threaded_mainloop_wait (m)
Signalled(m, p) ==
    [t \in Threads |-> IF p[t] = "waiting" /\ mainloop[t] = m THEN "woken" ELSE p[t]]

\* pa_threaded_mainloop_unlock (m) by owner o
Unlocked(m, o) ==
    IF loopLock[m] = o THEN [loopLock EXCEPT ![m] = NoOwner] ELSE loopLock

\* ------------------------------------------------------------------ Init
TypeOK ==
    /\ refs \in 0..UINT_MAX
    /\ vlc_pa_mainloop \in Loops \cup {NULL}
    /\ lock \in Threads \cup {NoOwner}
    /\ loopStatus \in [Loops -> {"free", "new", "started", "stopped"}]
    /\ loopLock \in [Loops -> Threads \cup {NoOwner, EL}]
    /\ op \in [Threads -> {"none", "connect", "disconnect"}]
    /\ mainloop \in [Threads -> Loops \cup {NULL}]
    /\ ctxState \in [Threads -> CtxStates \cup {NoCtx}]
    /\ delta \in [Threads -> -1..1]
    /\ conns \in 0..MaxConns
    /\ abort \in {"none", "assert75", "assert88", "assert89", "ub"}

\* k contexts are already connected when the threads start
InitHeld(k) ==
    /\ refs = k
    /\ conns = k
    /\ vlc_pa_mainloop = IF k = 0 THEN NULL ELSE 1
    /\ loopStatus = [l \in Loops |-> IF k > 0 /\ l = 1 THEN "started" ELSE "free"]
    /\ lock = NoOwner
    /\ loopLock = [l \in Loops |-> NoOwner]
    /\ pc = [t \in Threads |-> "idle"]
    /\ op = [t \in Threads |-> "none"]
    /\ mainloop = [t \in Threads |-> NULL]
    /\ ctxState = [t \in Threads |-> NoCtx]
    /\ result = [t \in Threads |-> "none"]
    /\ delta = [t \in Threads |-> 0]
    /\ abort = "none"

\* lines 39-41: static initialisers
Init == InitHeld(0)

\* -------------------------------------------------- vlc_pa_mainloop_init

\* line 169: vlc_pa_connect is entered
ConnectCall(t) ==
    /\ Running /\ pc[t] = "idle"
    /\ conns + Cardinality({u \in Threads : Connecting(u)}) < MaxConns
    /\ pc' = [pc EXCEPT ![t] = "init_lock"]
    /\ op' = [op EXCEPT ![t] = "connect"]
    /\ UNCHANGED <<refs, vlc_pa_mainloop, lock, loopStatus, loopLock, mainloop,
                   ctxState, result, delta, conns, abort>>

\* line 51 left out: vlc_pa_mainloop_init goes on without the mutex
InitLockSkipped(t) ==
    /\ Running /\ pc[t] = "init_lock"
    /\ pc' = [pc EXCEPT ![t] = "init_check"]
    /\ UNCHANGED <<refs, vlc_pa_mainloop, lock, loopStatus, loopLock, op,
                   mainloop, ctxState, result, delta, conns, abort>>

\* line 51: vlc_mutex_lock (&lock)
InitLock(t) ==
    /\ Running /\ pc[t] = "init_lock"
    /\ lock = NoOwner
    /\ lock' = t
    /\ pc' = [pc EXCEPT ![t] = "init_check"]
    /\ UNCHANGED <<refs, vlc_pa_mainloop, loopStatus, loopLock, op, mainloop,
                   ctxState, result, delta, conns, abort>>

\* lines 52-56: refs == 0 and pa_threaded_mainloop_new returns NULL
InitNewFail(t) ==
    /\ Running /\ pc[t] = "init_check"
    /\ refs = 0
    /\ mainloop' = [mainloop EXCEPT ![t] = NULL]
    /\ pc' = [pc EXCEPT ![t] = "init_out"]
    /\ UNCHANGED <<refs, vlc_pa_mainloop, lock, loopStatus, loopLock, op,
                   ctxState, result, delta, conns, abort>>

\* lines 52-54: refs == 0 and pa_threaded_mainloop_new returns a new loop
InitNew(t) ==
    /\ Running /\ pc[t] = "init_check"
    /\ refs = 0
    /\ \E l \in Loops :
        /\ loopStatus[l] = "free"
        /\ loopStatus' = [loopStatus EXCEPT ![l] = "new"]
        /\ loopLock' = [loopLock EXCEPT ![l] = NoOwner]
        /\ mainloop' = [mainloop EXCEPT ![t] = l]
    /\ pc' = [pc EXCEPT ![t] = "init_start"]
    /\ UNCHANGED <<refs, vlc_pa_mainloop, lock, op, ctxState, result, delta,
                   conns, abort>>

\* lines 58-62: pa_threaded_mainloop_start fails; the loop is freed and the
\* local pointer keeps its value
InitStartFail(t) ==
    /\ Running /\ pc[t] = "init_start"
    /\ loopStatus' = [loopStatus EXCEPT ![mainloop[t]] = "free"]
    /\ pc' = [pc EXCEPT ![t] = "init_out"]
    /\ UNCHANGED <<refs, vlc_pa_mainloop, lock, loopLock, op, mainloop,
                   ctxState, result, delta, conns, abort>>

\* lines 58-63 without the assignment of line 63: the started loop is never
\* published
InitStartUnpublished(t) ==
    /\ Running /\ pc[t] = "init_start"
    /\ loopStatus' = [loopStatus EXCEPT ![mainloop[t]] = "started"]
    /\ pc' = [pc EXCEPT ![t] = "init_inc"]
    /\ UNCHANGED <<refs, vlc_pa_mainloop, lock, loopLock, op, mainloop,
                   ctxState, result, delta, conns, abort>>

\* lines 58-63: pa_threaded_mainloop_start succeeds; the loop is published
InitStart(t) ==
    /\ Running /\ pc[t] = "init_start"
    /\ loopStatus' = [loopStatus EXCEPT ![mainloop[t]] = "started"]
    /\ vlc_pa_mainloop' = mainloop[t]
    /\ pc' = [pc EXCEPT ![t] = "init_inc"]
    /\ UNCHANGED <<refs, lock, loopLock, op, mainloop, ctxState, result, delta,
                   conns, abort>>

\* lines 65-73: refs != 0
InitExisting(t) ==
    /\ Running /\ pc[t] = "init_check"
    /\ refs # 0
    /\ IF RefsExhausted(refs)
       THEN /\ mainloop' = [mainloop EXCEPT ![t] = NULL]
            /\ pc' = [pc EXCEPT ![t] = "init_out"]
       ELSE /\ mainloop' = [mainloop EXCEPT ![t] = vlc_pa_mainloop]
            /\ pc' = [pc EXCEPT ![t] = "init_inc"]
    /\ UNCHANGED <<refs, vlc_pa_mainloop, lock, loopStatus, loopLock, op,
                   ctxState, result, delta, conns, abort>>

\* lines 75-76: assert (mainloop != NULL); refs++
InitInc(t) ==
    /\ Running /\ pc[t] = "init_inc"
    /\ IF mainloop[t] = NULL
       THEN /\ abort' = "assert75"
            /\ UNCHANGED <<refs, pc, delta>>
       ELSE /\ refs' = IncRefs(refs)
            /\ delta' = [delta EXCEPT ![t] = @ + 1]
            /\ pc' = [pc EXCEPT ![t] = "init_out"]
            /\ UNCHANGED abort
    /\ UNCHANGED <<vlc_pa_mainloop, lock, loopStatus, loopLock, op, mainloop,
                   ctxState, result, conns>>

\* lines 77-79 and 170-171: unlock, return mainloop; vlc_pa_connect returns
\* NULL when it got NULL
InitOut(t) ==
    /\ Running /\ pc[t] = "init_out"
    /\ lock' = NoOwner
    /\ IF mainloop[t] = NULL
       THEN /\ pc' = [pc EXCEPT ![t] = "returned"]
            /\ result' = [result EXCEPT ![t] = "acquire_failed"]
            /\ UNCHANGED op
       ELSE /\ pc' = [pc EXCEPT ![t] = "conn_lock"]
            /\ UNCHANGED <<op, result>>
    /\ UNCHANGED <<refs, vlc_pa_mainloop, loopStatus, loopLock, mainloop,
                   ctxState, delta, conns, abort>>

\* ------------------------------------------------ vlc_pa_mainloop_deinit

\* line 87: vlc_mutex_lock (&lock)
DeinitLock(t) ==
    /\ Running /\ pc[t] = "deinit_lock"
    /\ lock = NoOwner
    /\ lock' = t
    /\ pc' = [pc EXCEPT ![t] = "deinit_dec"]
    /\ UNCHANGED <<refs, vlc_pa_mainloop, loopStatus, loopLock, op, mainloop,
                   ctxState, result, delta, conns, abort>>

\* lines 88-92: the two assertions, --refs, and mainloop = NULL when
\* references remain
DeinitDec(t) ==
    /\ Running /\ pc[t] = "deinit_dec"
    /\ IF refs = 0
       THEN /\ abort' = "assert88"
            /\ UNCHANGED <<refs, pc, delta, mainloop>>
       ELSE IF mainloop[t] # vlc_pa_mainloop
       THEN /\ abort' = "assert89"
            /\ UNCHANGED <<refs, pc, delta, mainloop>>
       ELSE /\ refs' = DecRefs(refs)
            /\ delta' = [delta EXCEPT ![t] = @ - 1]
            /\ mainloop' = [mainloop EXCEPT ![t] =
                              IF StillReferenced(refs') THEN NULL ELSE @]
            /\ pc' = [pc EXCEPT ![t] = "deinit_unlock"]
            /\ UNCHANGED abort
    /\ UNCHANGED <<vlc_pa_mainloop, lock, loopStatus, loopLock, op, ctxState,
                   result, conns>>

\* the function that called vlc_pa_mainloop_deinit returns (lines 198, 213)
Returned(t) ==
    /\ pc' = [pc EXCEPT ![t] = "returned"]
    /\ result' = [result EXCEPT ![t] =
                    IF op[t] = "disconnect" THEN "disconnected" ELSE @]

\* lines 93-95 with the unlock moved behind the stop and free: the mutex stays
\* held
DeinitUnlockLate(t) ==
    /\ Running /\ pc[t] = "deinit_unlock"
    /\ IF mainloop[t] # NULL
       THEN /\ pc' = [pc EXCEPT ![t] = "deinit_stop"]
            /\ UNCHANGED <<result, lock>>
       ELSE /\ Returned(t)
            /\ lock' = NoOwner
    /\ UNCHANGED <<refs, vlc_pa_mainloop, loopStatus, loopLock, op, mainloop,
                   ctxState, delta, conns, abort>>

\* lines 93-95: unlock, then test the local pointer
DeinitUnlock(t) ==
    /\ Running /\ pc[t] = "deinit_unlock"
    /\ lock' = NoOwner
    /\ IF mainloop[t] # NULL
       THEN /\ pc' = [pc EXCEPT ![t] = "deinit_stop"]
            /\ UNCHANGED result
       ELSE Returned(t)
    /\ UNCHANGED <<refs, vlc_pa_mainloop, loopStatus, loopLock, op, mainloop,
                   ctxState, delta, conns, abort>>

\* line 97: pa_threaded_mainloop_stop takes the loop's lock to tell the
\* dispatch thread to quit and joins it
DeinitStop(t) ==
    /\ Running /\ pc[t] = "deinit_stop"
    /\ loopLock[mainloop[t]] = NoOwner
    /\ loopStatus' = [loopStatus EXCEPT ![mainloop[t]] =
                        IF @ = "started" THEN "stopped" ELSE @]
    /\ pc' = [pc EXCEPT ![t] = "deinit_free"]
    /\ UNCHANGED <<refs, vlc_pa_mainloop, lock, loopLock, op, mainloop,
                   ctxState, result, delta, conns, abort>>

\* line 98: pa_threaded_mainloop_free
DeinitFree(t) ==
    /\ Running /\ pc[t] = "deinit_free"
    /\ loopStatus' = [loopStatus EXCEPT ![mainloop[t]] = "free"]
    /\ Returned(t)
    /\ UNCHANGED <<refs, vlc_pa_mainloop, lock, loopLock, op, mainloop,
                   ctxState, delta, conns, abort>>

\* ------------------------------------------- context_wait, vlc_pa_connect

\* line 176: pa_threaded_mainloop_lock (mainloop)
ConnLock(t) ==
    /\ Running /\ pc[t] = "conn_lock"
    /\ loopLock[mainloop[t]] = NoOwner
    /\ loopLock' = [loopLock EXCEPT ![mainloop[t]] = t]
    /\ pc' = [pc EXCEPT ![t] = "conn_new"]
    /\ UNCHANGED <<refs, vlc_pa_mainloop, lock, loopStatus, op, mainloop,
                   ctxState, result, delta, conns, abort>>

\* lines 178-181: pa_context_new returns a context, or NULL (goto fail)
ConnNew(t) ==
    /\ Running /\ pc[t] = "conn_new"
    /\ \/ /\ ctxState' = [ctxState EXCEPT ![t] = "UNCONNECTED"]
          /\ pc' = [pc EXCEPT ![t] = "conn_connect"]
          /\ UNCHANGED result
       \/ /\ result' = [result EXCEPT ![t] = "new_failed"]
          /\ pc' = [pc EXCEPT ![t] = "fail_unlock"]
          /\ UNCHANGED ctxState
    /\ UNCHANGED <<refs, vlc_pa_mainloop, lock, loopStatus, loopLock, op,
                   mainloop, delta, conns, abort>>

\* lines 183-184: pa_context_set_state_callback, then pa_context_connect
\* either starts the handshake or fails at once
ConnConnect(t) ==
    /\ Running /\ pc[t] = "conn_connect"
    /\ \/ /\ ctxState' = [ctxState EXCEPT ![t] = "CONNECTING"]
          /\ pc' = [pc EXCEPT ![t] = "wait_check"]
          /\ UNCHANGED result
       \/ /\ ctxState' = [ctxState EXCEPT ![t] = "FAILED"]
          /\ result' = [result EXCEPT ![t] = "connect_failed"]
          /\ pc' = [pc EXCEPT ![t] = "conn_unref"]
    /\ UNCHANGED <<refs, vlc_pa_mainloop, lock, loopStatus, loopLock, op,
                   mainloop, delta, conns, abort>>

\* lines 154-157 and 160: context_wait reads the state and leaves the loop
\* with 0 (READY), with -1 (FAILED, TERMINATED), or goes on to wait
WaitCheck(t) ==
    /\ Running /\ pc[t] = "wait_check"
    /\ IF WaitReady(ctxState[t])
       THEN /\ pc' = [pc EXCEPT ![t] = "conn_ok"]
            /\ UNCHANGED result
       ELSE IF WaitFailed(ctxState[t])
       THEN /\ pc' = [pc EXCEPT ![t] = "conn_unref"]
            /\ result' = [result EXCEPT ![t] = "wait_failed"]
       ELSE /\ pc' = [pc EXCEPT ![t] = "wait_call"]
            /\ UNCHANGED result
    /\ UNCHANGED <<refs, vlc_pa_mainloop, lock, loopStatus, loopLock, op,
                   mainloop, ctxState, delta, conns, abort>>

\* line 158: pa_threaded_mainloop_wait releases the loop's lock and blocks on
\* the loop's condition variable, as one step
WaitCall(t) ==
    /\ Running /\ pc[t] = "wait_call"
    /\ loopLock' = Unlocked(mainloop[t], t)
    /\ pc' = [pc EXCEPT ![t] = "waiting"]
    /\ UNCHANGED <<refs, vlc_pa_mainloop, lock, loopStatus, op, mainloop,
                   ctxState, result, delta, conns, abort>>

\* line 158: a condition variable may wake its waiter without a signal
SpuriousWakeup(t) ==
    /\ Running /\ pc[t] = "waiting"
    /\ pc' = [pc EXCEPT ![t] = "woken"]
    /\ UNCHANGED <<refs, vlc_pa_mainloop, lock, loopStatus, loopLock, op,
                   mainloop, ctxState, result, delta, conns, abort>>

\* line 158: pa_threaded_mainloop_wait returns once it has the lock again
WaitReturn(t) ==
    /\ Running /\ pc[t] = "woken"
    /\ loopLock[mainloop[t]] = NoOwner
    /\ loopLock' = [loopLock EXCEPT ![mainloop[t]] = t]
    /\ pc' = [pc EXCEPT ![t] = "wait_check"]
    /\ UNCHANGED <<refs, vlc_pa_mainloop, lock, loopStatus, op, mainloop,
                   ctxState, result, delta, conns, abort>>

\* lines 187-189: vlc_pa_error, pa_context_unref, goto fail
ConnUnref(t) ==
    /\ Running /\ pc[t] = "conn_unref"
    /\ ctxState' = [ctxState EXCEPT ![t] = NoCtx]
    /\ pc' = [pc EXCEPT ![t] = "fail_unlock"]
    /\ UNCHANGED <<refs, vlc_pa_mainloop, lock, loopStatus, loopLock, op,
                   mainloop, result, delta, conns, abort>>

\* lines 192-193: pa_threaded_mainloop_unlock; return ctx
ConnReturn(t) ==
    /\ Running /\ pc[t] = "conn_ok"
    /\ loopLock' = Unlocked(mainloop[t], t)
    /\ conns' = conns + 1
    /\ ctxState' = [ctxState EXCEPT ![t] = NoCtx]
    /\ result' = [result EXCEPT ![t] = "ok"]
    /\ pc' = [pc EXCEPT ![t] = "returned"]
    /\ UNCHANGED <<refs, vlc_pa_mainloop, lock, loopStatus, op, mainloop,
                   delta, abort>>

\* the fail path without the pa_threaded_mainloop_unlock of line 196: the
\* caller enters vlc_pa_mainloop_deinit still owning the loop's lock
FailUnlockMissing(t) ==
    /\ Running /\ pc[t] = "fail_unlock"
    /\ pc' = [pc EXCEPT ![t] = "deinit_lock"]
    /\ UNCHANGED <<refs, vlc_pa_mainloop, lock, loopStatus, loopLock, op,
                   mainloop, ctxState, result, delta, conns, abort>>

\* lines 195-197: fail: pa_threaded_mainloop_unlock, then call
\* vlc_pa_mainloop_deinit
FailUnlock(t) ==
    /\ Running /\ pc[t] = "fail_unlock"
    /\ loopLock' = Unlocked(mainloop[t], t)
    /\ pc' = [pc EXCEPT ![t] = "deinit_lock"]
    /\ UNCHANGED <<refs, vlc_pa_mainloop, lock, loopStatus, op, mainloop,
                   ctxState, result, delta, conns, abort>>

\* vlc_pa_connect or vlc_pa_disconnect has returned to the host; its locals
\* are gone
Done(t) ==
    /\ Running /\ pc[t] = "returned"
    /\ pc' = [pc EXCEPT ![t] = "idle"]
    /\ op' = [op EXCEPT ![t] = "none"]
    /\ mainloop' = [mainloop EXCEPT ![t] = NULL]
    /\ result' = [result EXCEPT ![t] = "none"]
    /\ delta' = [delta EXCEPT ![t] = 0]
    /\ UNCHANGED <<refs, vlc_pa_mainloop, lock, loopStatus, loopLock, ctxState,
                   conns, abort>>

\* ----------------------------------------------------- vlc_pa_disconnect

\* lines 204-206: called with a context that vlc_pa_connect returned; reads
\* the global pointer without the mutex
DisconnectCall(t) ==
    /\ Running /\ pc[t] = "idle"
    /\ conns > 0
    /\ conns' = conns - 1
    /\ op' = [op EXCEPT ![t] = "disconnect"]
    /\ mainloop' = [mainloop EXCEPT ![t] = vlc_pa_mainloop]
    /\ ctxState' = [ctxState EXCEPT ![t] = "READY"]
    /\ pc' = [pc EXCEPT ![t] = "disc_lock"]
    /\ UNCHANGED <<refs, vlc_pa_mainloop, lock, loopStatus, loopLock, result,
                   delta, abort>>

\* line 208: pa_threaded_mainloop_lock (mainloop)
DiscLock(t) ==
    /\ Running /\ pc[t] = "disc_lock"
    /\ mainloop[t] # NULL
    /\ loopLock[mainloop[t]] = NoOwner
    /\ loopLock' = [loopLock EXCEPT ![mainloop[t]] = t]
    /\ pc' = [pc EXCEPT ![t] = "disc_unref"]
    /\ UNCHANGED <<refs, vlc_pa_mainloop, lock, loopStatus, op, mainloop,
                   ctxState, result, delta, conns, abort>>

\* line 209: pa_context_unref (ctx)
DiscUnref(t) ==
    /\ Running /\ pc[t] = "disc_unref"
    /\ ctxState' = [ctxState EXCEPT ![t] = NoCtx]
    /\ pc' = [pc EXCEPT ![t] = "disc_unlock"]
    /\ UNCHANGED <<refs, vlc_pa_mainloop, lock, loopStatus, loopLock, op,
                   mainloop, result, delta, conns, abort>>

\* lines 210-212: pa_threaded_mainloop_unlock, then call
\* vlc_pa_mainloop_deinit
DiscUnlock(t) ==
    /\ Running /\ pc[t] = "disc_unlock"
    /\ loopLock' = Unlocked(mainloop[t], t)
    /\ pc' = [pc EXCEPT ![t] = "deinit_lock"]
    /\ UNCHANGED <<refs, vlc_pa_mainloop, lock, loopStatus, op, mainloop,
                   ctxState, result, delta, conns, abort>>

\* ------------------------------------- the dispatch thread of a main loop

\* a context whose handshake the dispatch thread of loop l still works on
Pending(t, l) ==
    /\ Connecting(t) /\ mainloop[t] = l
    /\ ctxState[t] \in {"CONNECTING", "AUTHORIZING", "SETTING_NAME", "READY"}

\* the states the handshake can move to
NextCtxStates(s) ==
    (CASE s = "CONNECTING"   -> {"AUTHORIZING"}
       [] s = "AUTHORIZING"  -> {"SETTING_NAME"}
       [] s = "SETTING_NAME" -> {"READY"}
       [] OTHER              -> {}) \cup {"FAILED", "TERMINATED"}

\* the dispatch thread leaves poll() and takes the loop's lock
LoopLock(l) ==
    /\ Running /\ loopStatus[l] = "started"
    /\ loopLock[l] = NoOwner
    /\ \E t \in Threads : Pending(t, l)
    /\ loopLock' = [loopLock EXCEPT ![l] = EL]
    /\ UNCHANGED <<refs, vlc_pa_mainloop, lock, loopStatus, pc, op, mainloop,
                   ctxState, result, delta, conns, abort>>

\* lines 135-148: under the loop's lock, the context changes state and
\* context_state_cb runs
LoopDispatch(l, t) ==
    /\ Running /\ loopStatus[l] = "started"
    /\ loopLock[l] = EL
    /\ Pending(t, l)
    /\ \E s \in NextCtxStates(ctxState[t]) :
        /\ ctxState' = [ctxState EXCEPT ![t] = s]
        /\ pc' = IF ShouldSignal(s) THEN Signalled(l, pc) ELSE pc
    /\ UNCHANGED <<refs, vlc_pa_mainloop, lock, loopStatus, loopLock, op,
                   mainloop, result, delta, conns, abort>>

\* the dispatch thread releases the loop's lock and goes back to poll()
LoopUnlock(l) ==
    /\ Running
    /\ loopLock[l] = EL
    /\ loopLock' = [loopLock EXCEPT ![l] = NoOwner]
    /\ UNCHANGED <<refs, vlc_pa_mainloop, lock, loopStatus, pc, op, mainloop,
                   ctxState, result, delta, conns, abort>>

\* ------------------------------------------------- undefined behaviour

\* positions at which the thread hands its local pointer to a
\* pa_threaded_mainloop_* function
LoopCallPcs == {"conn_lock", "conn_new", "wait_call", "woken", "conn_ok",
                "fail_unlock", "disc_lock", "disc_unlock", "deinit_stop",
                "deinit_free"}

\* A call on a NULL or freed loop is undefined: the process may die here, or
\* (for a freed loop) the call may work on the stale memory, which is what the
\* ordinary actions do
UseAfterFree(t) ==
    /\ Running /\ pc[t] \in LoopCallPcs
    /\ Dangling(mainloop[t])
    /\ abort' = "ub"
    /\ UNCHANGED <<refs, vlc_pa_mainloop, lock, loopStatus, loopLock, pc, op,
                   mainloop, ctxState, result, delta, conns>>

\* ------------------------------------------------------------------ Next
ThreadStep(t) ==
    \/ ConnectCall(t) \/ InitLock(t) \/ InitNewFail(t) \/ InitNew(t)
    \/ InitStartFail(t) \/ InitStart(t) \/ InitExisting(t) \/ InitInc(t)
    \/ InitOut(t)
    \/ ConnLock(t) \/ ConnNew(t) \/ ConnConnect(t) \/ WaitCheck(t)
    \/ WaitCall(t) \/ SpuriousWakeup(t) \/ WaitReturn(t) \/ ConnUnref(t)
    \/ ConnReturn(t) \/ FailUnlock(t)
    \/ DisconnectCall(t) \/ DiscLock(t) \/ DiscUnref(t) \/ DiscUnlock(t)
    \/ DeinitLock(t) \/ DeinitDec(t) \/ DeinitUnlock(t) \/ DeinitStop(t)
    \/ DeinitFree(t) \/ Done(t)
    \/ UseAfterFree(t)

LoopStep(l) ==
    \/ LoopLock(l)
    \/ \E t \in Threads : LoopDispatch(l, t)
    \/ LoopUnlock(l)

Next ==
    \/ \E t \in Threads : ThreadStep(t)
    \/ \E l \in Loops : LoopStep(l)

Spec == Init /\ [][Next]_vars

\* the same program entered with any number of contexts already connected
SpecHeld == (\E k \in 0..UINT_MAX : InitHeld(k)) /\ [][Next]_vars

\* ======================================================================
\* Properties
\* ======================================================================

\* thread t takes a step of its own
Steps(t) == pc'[t] # pc[t]

\* C1: an acquire made while the count c satisfies 1 <= c < UINT_MAX succeeds:
\* it takes the existing published loop without creating or starting another
\* one, and its increment leaves the count at c + 1.
C1_SecondAcquireSucceeds ==
    [][\A t \in Threads :
        /\ (pc[t] = "init_check" /\ Steps(t) /\ refs >= 1 /\ refs < UINT_MAX)
              => /\ pc'[t] = "init_inc"
                 /\ mainloop'[t] = vlc_pa_mainloop
                 /\ mainloop'[t] # NULL
                 /\ loopStatus' = loopStatus
        /\ (pc[t] = "init_inc" /\ Steps(t) /\ refs < UINT_MAX)
              => refs' = refs + 1]_vars

C4_FailedInitReturnsNull ==
    [][\A t \in Threads :
        (pc[t] \in {"init_check", "init_start"} /\ pc'[t] = "init_out"
            /\ refs = 0)
          => /\ mainloop'[t] = NULL
             /\ refs' = 0
             /\ vlc_pa_mainloop' = vlc_pa_mainloop
             /\ \A l \in Loops : loopStatus'[l] \in {"new", "started"}
                                    => loopStatus'[l] = loopStatus[l]]_vars

\* every other thread is outside vlc_pa_connect and vlc_pa_disconnect
OthersIdle(t) == \A u \in Threads \ {t} : pc[u] = "idle"

\* C5: a vlc_pa_connect whose context_wait ended on FAILED or TERMINATED
\* returns NULL having released the one reference it took: the call's net
\* change to the count is zero, its context is unreferenced, it holds no lock,
\* and if the count is back at zero with no other caller active no loop is
\* left started.
C5_WaitFailureReleases ==
    \A t \in Threads :
        (pc[t] = "returned" /\ result[t] = "wait_failed")
          => /\ delta[t] = 0
             /\ ctxState[t] = NoCtx
             /\ lock # t
             /\ \A l \in Loops : loopLock[l] # t
             /\ (refs = 0 /\ OthersIdle(t))
                   => \A l \in Loops : loopStatus[l] # "started"

\* C6: vlc_pa_connect returns a context only when context_wait saw READY, and
\* then it keeps exactly one reference (net change +1) and holds no lock.
C6_SuccessKeepsOneReference ==
    /\ \A t \in Threads :
          pc[t] = "conn_ok" => WaitReady(ctxState[t]) /\ ctxState[t] = "READY"
    /\ \A t \in Threads :
          (pc[t] = "returned" /\ result[t] = "ok")
            => /\ delta[t] = 1
               /\ lock # t
               /\ \A l \in Loops : loopLock[l] # t

\* --------------------------------------------------------------- fairness

\* steps a running thread takes without waiting for anything
Proceeds(t) ==
    \/ InitNewFail(t) \/ InitNew(t) \/ InitStartFail(t) \/ InitStart(t)
    \/ InitExisting(t) \/ InitInc(t) \/ InitOut(t)
    \/ ConnNew(t) \/ ConnConnect(t) \/ WaitCheck(t) \/ WaitCall(t)
    \/ ConnUnref(t) \/ ConnReturn(t) \/ FailUnlock(t)
    \/ DiscUnref(t) \/ DiscUnlock(t)
    \/ DeinitDec(t) \/ DeinitUnlock(t) \/ DeinitFree(t) \/ Done(t)

\* steps that take the mutex or a loop's lock
Acquires(t) ==
    \/ InitLock(t) \/ DeinitLock(t) \/ ConnLock(t) \/ DiscLock(t)
    \/ WaitReturn(t) \/ DeinitStop(t)

\* Threads that can run do run, a thread blocked on a lock gets it if it is
\* free again and again, and a dispatch thread does not keep its loop's lock.
\* Nothing obliges the host to call, the server to answer, or a condition
\* variable to wake spuriously.
Fairness ==
    /\ \A t \in Threads : WF_vars(Proceeds(t)) /\ SF_vars(Acquires(t))
    /\ \A l \in Loops : WF_vars(LoopUnlock(l))

SpecFair == Init /\ [][Next]_vars /\ Fairness

\* positions inside context_wait
WaitPcs == {"wait_check", "wait_call", "waiting", "woken"}

\* C7: no wakeup is lost: once the context of a thread that is inside
\* context_wait is READY, FAILED or TERMINATED, the thread leaves context_wait
\* (a process that has aborted in the meantime is not held against the claim).
C7_NoLostWakeup ==
    \A t \in Threads :
        (pc[t] \in WaitPcs /\ ShouldSignal(ctxState[t]))
            ~> (pc[t] \notin WaitPcs \/ ~Running)

\* loops whose dispatch thread is started and not yet stopped
StartedLoops == {l \in Loops : loopStatus[l] = "started"}

\* thread t has dropped the last reference and left the mutex, and is about to
\* stop the loop its local pointer names
AboutToStop(t) == pc[t] = "deinit_stop"

\* C8 as stated: in every reachable state at most one loop is started and not
\* yet stopped.
C8_AtMostOneLoop == Cardinality(StartedLoops) <= 1

\* C8 amended: every started loop is the published one or a loop that a
\* releasing thread is about to stop, so the started loops number at most one
\* more than the threads between the unlock of line 93 and the stop of line 97.
C8_AtMostOneLoopOutsideStopWindow ==
    /\ \A l \in StartedLoops :
          \/ l = vlc_pa_mainloop
          \/ \E t \in Threads : AboutToStop(t) /\ mainloop[t] = l
    /\ Cardinality(StartedLoops)
          <= 1 + Cardinality({t \in Threads : AboutToStop(t)})

\* C8 witness: the window itself: one thread is about to stop the old loop
\* while a second loop, started by another thread's acquire, is published.
C8_Witness ==
    \E t \in Threads :
        /\ AboutToStop(t)
        /\ loopStatus[mainloop[t]] = "started"
        /\ vlc_pa_mainloop # mainloop[t]
        /\ loopStatus[vlc_pa_mainloop] = "started"
        /\ refs = 1

C10_StopOutsideMutex ==
    \A t \in Threads : pc[t] \in {"deinit_stop", "deinit_free"} => lock # t

\* C10 witness: a thread is stopping the loop while another thread holds the
\* mutex inside vlc_pa_mainloop_init.
C10_Witness ==
    \E t, u \in Threads :
        /\ pc[t] = "deinit_stop"
        /\ loopStatus[mainloop[t]] = "started"
        /\ lock = u /\ u # t

\* positions inside vlc_pa_mainloop_deinit
DeinitPcs == {"deinit_lock", "deinit_dec", "deinit_unlock", "deinit_stop",
              "deinit_free"}

\* C11: vlc_pa_disconnect works in a fixed order: it unreferences the context
\* while it holds the loop's lock, releases that lock, and only then calls
\* vlc_pa_mainloop_deinit, so that inside the release (and when the loop is
\* stopped) the context is already gone and the caller holds no loop lock.
C11_DisconnectOrder ==
    \A t \in Threads :
        op[t] = "disconnect" =>
            /\ pc[t] = "disc_unref"
                  => loopLock[mainloop[t]] = t /\ ctxState[t] # NoCtx
            /\ pc[t] = "disc_unlock"
                  => loopLock[mainloop[t]] = t /\ ctxState[t] = NoCtx
            /\ pc[t] \in DeinitPcs \cup {"returned"}
                  => ctxState[t] = NoCtx /\ \A l \in Loops : loopLock[l] # t

\* positions at which a thread reads or writes refs (lines 52, 67, 76, 88, 91)
RefsPcs == {"init_check", "init_inc", "deinit_dec"}

\* C12: refs is only read and modified under the mutex: a thread at a
\* statement that reads, increments or decrements refs owns `lock`, and every
\* change of refs is a step of the thread that owns `lock`.
C12_RefsUnderMutex ==
    /\ [](\A t \in Threads : pc[t] \in RefsPcs => lock = t)
    /\ [][refs' # refs
            => \E t \in Threads : lock = t /\ Steps(t) /\ pc[t] \in RefsPcs]_vars

\* C12 witness: one thread is at the decrement with the mutex while another
\* is blocked at the vlc_mutex_lock of vlc_pa_mainloop_init.
C12_Witness ==
    \E t, u \in Threads :
        /\ pc[t] = "deinit_dec" /\ lock = t /\ refs = 1
        /\ pc[u] = "init_lock"

\* C13: the wait has no timeout and no cancellation: a thread leaves
\* context_wait only in a step that finds its context READY, FAILED or
\* TERMINATED, however often it is woken; while the context stays in any other
\* state the thread stays inside context_wait.
C13_WaitIsUnbounded ==
    [][\A t \in Threads :
        (pc[t] \in WaitPcs /\ pc'[t] \notin WaitPcs)
          => /\ pc[t] = "wait_check"
             /\ ctxState[t] \in {"READY", "FAILED", "TERMINATED"}]_vars

\* C13 witness: a thread has been woken inside context_wait although its
\* context is still in the handshake.
C13_Witness ==
    \E t \in Threads :
        /\ pc[t] = "woken"
        /\ ctxState[t] \in {"CONNECTING", "AUTHORIZING", "SETTING_NAME"}
        /\ delta[t] = 1

\* no call of vlc_pa_connect or vlc_pa_disconnect is in progress
Quiescent == \A t \in Threads : pc[t] = "idle"

\* C14: whenever no call is in progress, refs equals the number of contexts
\* that vlc_pa_connect returned and vlc_pa_disconnect has not yet taken back,
\* and a loop is started if and only if that number is above zero.
C14_QuiescentCountMatches ==
    Quiescent =>
        /\ refs = conns
        /\ (StartedLoops # {}) <=> (conns > 0)

\* C15: none of the three assertions (lines 75, 88, 89) ever fails.
C15_AssertionsHold == abort \notin {"assert75", "assert88", "assert89"}

\* thread t owns the lock of some loop
HoldsLoopLock(t) == \E l \in Loops : loopLock[l] = t

\* C16: no thread holds the mutex and a loop's lock at the same time, and a
\* holder of either lock is never itself blocked (it always has a step that
\* waits for nothing, and a dispatch thread can always release its loop's
\* lock), so the two locks cannot deadlock.
C16_LocksNeverNested ==
    /\ \A t \in Threads : ~(lock = t /\ HoldsLoopLock(t))
    /\ \A t \in Threads :
          (Running /\ (lock = t \/ HoldsLoopLock(t))) => ENABLED Proceeds(t)
    /\ \A l \in Loops :
          (Running /\ loopLock[l] = EL) => ENABLED LoopUnlock(l)

\* C16 witness: one caller owns the lock of the published, started loop
\* inside vlc_pa_connect, holding the only reference, while another caller
\* owns the mutex inside vlc_pa_mainloop_init.
C16_Witness ==
    \E t, u \in Threads :
        /\ t # u
        /\ lock = u /\ pc[u] = "init_check"
        /\ pc[t] = "wait_check" /\ delta[t] = 1 /\ refs = 1
        /\ vlc_pa_mainloop = mainloop[t]
        /\ loopStatus[mainloop[t]] = "started"
        /\ loopLock[mainloop[t]] = t

\* positions of vlc_pa_connect between pa_threaded_mainloop_lock (line 176)
\* and the pa_threaded_mainloop_unlock of lines 192 and 196
LoopLockedPcs == {"conn_new", "conn_connect", "wait_check", "wait_call",
                  "conn_unref", "conn_ok", "fail_unlock"}

\* C17: vlc_pa_connect calls pa_threaded_mainloop_wait only while it owns the
\* loop's lock, and the lock is balanced: the caller owns it from line 176 to
\* the unlock of line 192 or 196 (except while blocked in the wait) and owns no
\* loop lock once it is in vlc_pa_mainloop_deinit or has returned.
C17_LoopLockBalanced ==
    \A t \in Threads :
        Connecting(t) =>
            /\ pc[t] \in LoopLockedPcs => loopLock[mainloop[t]] = t
            /\ pc[t] \in DeinitPcs \cup {"returned"} => ~HoldsLoopLock(t)

\* C18: a vlc_pa_connect that failed before any wait (pa_context_new returned
\* NULL, or pa_context_connect returned an error) returns NULL having released
\* exactly the reference it took: the call's net change to refs is zero, the
\* context, if one was created, is unreferenced, and if the count is back at
\* zero with no other caller active no loop is left started.
C18_EarlyFailureReleases ==
    \A t \in Threads :
        (pc[t] = "returned" /\ result[t] \in {"new_failed", "connect_failed"})
          => /\ delta[t] = 0
             /\ ctxState[t] = NoCtx
             /\ (refs = 0 /\ OthersIdle(t)) => StartedLoops = {}

\* C19: a run of context_state_cb for a context of loop l wakes the threads
\* blocked in pa_threaded_mainloop_wait on l exactly when the state it
\* observes is READY, FAILED or TERMINATED and moves no thread for any other
\* state; it does not wait for the woken threads: the dispatch thread still
\* owns the loop's lock afterwards and is free to release it.
C19_CallbackSignalsOnFinalStates ==
    [][\A l \in Loops, t \in Threads :
          LoopDispatch(l, t) =>
              /\ pc' = [u \in Threads |->
                          IF /\ pc[u] = "waiting" /\ mainloop[u] = l
                             /\ ctxState'[t] \in {"READY", "FAILED", "TERMINATED"}
                          THEN "woken" ELSE pc[u]]
              /\ loopLock'[l] = EL /\ abort' = "none"]_vars

\* C19 witness: the dispatch thread, still owning the loop's lock, has just
\* moved the context of a caller that holds a reference to FAILED, and the
\* caller has been woken from its wait.
C19_Witness ==
    \E t \in Threads :
        /\ pc[t] = "woken" /\ ctxState[t] = "FAILED" /\ delta[t] = 1
        /\ loopStatus[mainloop[t]] = "started"
        /\ loopLock[mainloop[t]] = EL

====
